---------------------------- MODULE Spec2Model ----------------------------
(***************************************************************************)
(* A model of src/app.py, the Streamlit ledger application "Gestion de     *)
(* Gastos e Ingresos".  One action is one script run triggered by a user   *)
(* interaction (a button, the month selector, a file upload), including    *)
(* the st.rerun() that ends the handler, so that every state shows what    *)
(* the session holds and what the page displays between interactions.     *)
(***************************************************************************)
EXTENDS Integers, Sequences, FiniteSets, TLC

(***************************************************************************)
(* Bounds of the model.                                                    *)
(***************************************************************************)
\* Number of user interactions (script runs) followed in one session.
MaxOps == 4
\* Valor is held in units of 1/Scale, so that the float input of
\* "Anadir" can produce a non-integer amount.
Scale == 2

(***************************************************************************)
(* Cells.  A spreadsheet or DataFrame cell is text, a number or empty      *)
(* (NaN).                                                                  *)
(***************************************************************************)
NaN == [tag |-> "nan", s |-> "", n |-> 0]
Str(x) == [tag |-> "str", s |-> x, n |-> 0]
Num(v) == [tag |-> "num", s |-> "", n |-> v]
IsNaN(c) == c.tag = "nan"

\* Column names used by the code.
FECHA == "Fecha"
MES == "Mes"
TIPO == "Ingreso / Gasto / Inversión"
CONCEPTO == "Concepto"
DETALLE == "Detalle"
VALOR == "Valor"
TODOS == "Todos"

(***************************************************************************)
(* Dates.  date_input yields a calendar date; the tables hold its text     *)
(* form DD-MM-YYYY.                                                        *)
(***************************************************************************)
Dates == { [day |-> 15, month |-> 1, year |-> 2024],
           [day |-> 5, month |-> 3, year |-> 2024] }

meses == << "enero", "febrero", "marzo", "abril", "mayo", "junio", "julio",
            "agosto", "septiembre", "octubre", "noviembre", "diciembre" >>

Pad2(k) == IF k < 10 THEN "0" \o ToString(k) ELSE ToString(k)

\* date.strftime('%d-%m-%Y')
Strftime(d) == Pad2(d.day) \o "-" \o Pad2(d.month) \o "-" \o ToString(d.year)

\* The texts strptime('%d-%m-%Y') accepts for a date: zero padding is optional.
DateTexts(d) ==
    { a \o "-" \o b \o "-" \o ToString(d.year) :
        a \in {Pad2(d.day), ToString(d.day)},
        b \in {Pad2(d.month), ToString(d.month)} }

ParsesAsDate(txt) == \E d \in Dates : txt \in DateTexts(d)

\* datetime.strptime(txt, '%d-%m-%Y'), defined where ParsesAsDate(txt).
Strptime(txt) == CHOOSE d \in Dates : txt \in DateTexts(d)

(***************************************************************************)
(* Generic sequence helpers.                                               *)
(***************************************************************************)
RECURSIVE SelectRows(_, _, _)
\* The rows of sq, from position k on, for which keep[position] holds.
SelectRows(sq, keep, k) ==
    IF k > Len(sq) THEN << >>
    ELSE IF keep[k] THEN << sq[k] >> \o SelectRows(sq, keep, k + 1)
         ELSE SelectRows(sq, keep, k + 1)

AllNaN(row) == \A j \in 1..Len(row) : IsNaN(row[j])

\* DataFrame.dropna(how='all') followed by reset_index(drop=True), on rows.
DropNaAll(rows) ==
    SelectRows(rows, [k \in 1..Len(rows) |-> ~AllNaN(rows[k])], 1)

\* Series.dropna().tolist() on a sequence of text cells.
DropNaList(cells) ==
    LET kept == SelectRows(cells, [k \in 1..Len(cells) |-> ~IsNaN(cells[k])], 1)
    IN  [k \in 1..Len(kept) |-> kept[k].s]

\* Position (1-based) of a column label, 0 when the frame has no such column.
ColIdx(columns, name) ==
    IF \E j \in 1..Len(columns) : columns[j] = name
    THEN CHOOSE j \in 1..Len(columns) : columns[j] = name
    ELSE 0

HasCol(frame, name) == ColIdx(frame.columns, name) # 0

\* frame.at[i, name] with the 0-based row label i of a densely indexed frame.
At(frame, i, name) == frame.rows[i + 1][ColIdx(frame.columns, name)]

(***************************************************************************)
(* Workbooks.  A worksheet is a grid, rows and columns counted from 1 as   *)
(* Excel and openpyxl do.  Row 12 holds the column headers and the data    *)
(* starts at row 13.                                                       *)
(***************************************************************************)
BlankRow(w) == [j \in 1..w |-> NaN]
TitleRow(t, w) == [j \in 1..w |-> IF j = 1 THEN Str(t) ELSE NaN]

HeaderBlock(title, w) ==
    << TitleRow(title, w) >> \o [k \in 1..10 |-> BlankRow(w)]

StdHeader == << Str(FECHA), Str(MES), Str(TIPO), Str(CONCEPTO),
                Str(DETALLE), Str(VALOR) >>

\* The category sheet as pandas reads it: the first column lists the record
\* types, and one column per type lists its concepts.
CategoriasSheet ==
    [ columns |-> << "Tipo", "Ingreso", "Gasto", "Inversión" >>,
      rows |-> << << Str("Ingreso"), Str("Salario"), Str("Comida"), Str("CDT") >>,
                  << Str("Gasto"), NaN, Str("Transporte"), NaN >>,
                  << Str("Inversión"), NaN, NaN, NaN >> >> ]

\* The bundled template "Control Gastos Ingresos.xlsx": two records and one
\* pre-formatted row whose month formula shows "-".
TemplateRegistro ==
    HeaderBlock("Control Gastos Ingresos", 6) \o << StdHeader >> \o
    << << Str("15-01-2024"), Str("enero"), Str("Gasto"), Str("Comida"),
          Str("almuerzo"), Num(3 * Scale) >>,
       << Str("5-3-2024"), Str("marzo"), Str("Ingreso"), Str("Salario"),
          NaN, Num(5 * Scale) >>,
       << NaN, Str("-"), NaN, NaN, NaN, NaN >> >>

TemplateWorkbook ==
    [ Registro |-> TemplateRegistro, Categorias |-> CategoriasSheet ]

\* A user's workbook: its own title, one more column ("Nota", before
\* "Valor"), other records.
UserRegistro ==
    HeaderBlock("Mis cuentas", 7) \o
    << << Str(FECHA), Str(MES), Str(TIPO), Str(CONCEPTO), Str(DETALLE),
          Str("Nota"), Str(VALOR) >> >> \o
    << << Str("05-03-2024"), Str("marzo"), Str("Inversión"), Str("CDT"),
          Str("ahorro"), Str("n1"), Num(4 * Scale) >>,
       << Str("15-01-2024"), Str("enero"), Str("Gasto"), Str("Transporte"),
          Str("bus"), NaN, Num(1 * Scale) >> >>

UserWorkbook ==
    [ Registro |-> UserRegistro, Categorias |-> CategoriasSheet ]

\* Another user's workbook: the date of its first record is not written as
\* DD-MM-YYYY.
SlashDateRegistro ==
    HeaderBlock("Cuentas 2024", 6) \o << StdHeader >> \o
    << << Str("15/01/2024"), Str("enero"), Str("Gasto"), Str("Comida"),
          Str("pan"), Num(1 * Scale) >>,
       << Str("05-03-2024"), Str("marzo"), Str("Ingreso"), Str("Salario"),
          Str("pago"), Num(2 * Scale) >> >>

SlashDateWorkbook ==
    [ Registro |-> SlashDateRegistro, Categorias |-> CategoriasSheet ]

\* A workbook with the header block and the column headers, and no record.
NewRegistro == HeaderBlock("Cuentas nuevas", 6) \o << StdHeader >>

NewWorkbook ==
    [ Registro |-> NewRegistro, Categorias |-> CategoriasSheet ]

\* The files a user may upload.
Uploads == { UserWorkbook, SlashDateWorkbook, NewWorkbook }

\* pd.read_excel(...)[sheet]: the first grid row becomes the column labels,
\* the rest the rows, so that df.iloc[k] is Excel row k + 2.
ReadExcel(ws) == [ columns |-> Head(ws), rows |-> Tail(ws) ]

\* df.iloc[k, :] for a 0-based k.
Iloc(df, k) == df.rows[k + 1]

\* df.iloc[k:, :] for a 0-based k.
IlocFrom(df, k) ==
    IF k >= Len(df.rows) THEN << >> ELSE SubSeq(df.rows, k + 1, Len(df.rows))

EmptyFrame == [ columns |-> << >>, rows |-> << >> ]


(***************************************************************************)
(* The month selector, the parser and the month filter.                    *)
(***************************************************************************)
RECURSIVE Unique(_, _)
\* Series.unique(): first occurrences, in order.
Unique(sq, seen) ==
    IF sq = << >> THEN << >>
    ELSE IF Head(sq) \in seen THEN Unique(Tail(sq), seen)
         ELSE << Head(sq) >> \o Unique(Tail(sq), seen \cup {Head(sq)})

\* Faulty variant of unique_months: the labels are taken from df.iloc[11:],
\* the rows the parser reads.
unique_months_from_11(df) ==
    LET rows == IlocFrom(df, 11)
        col == [k \in 1..Len(rows) |-> rows[k][2]]
        noDash == SelectRows(col, [k \in 1..Len(col) |-> col[k] # Str("-")], 1)
    IN  << TODOS >> \o Unique(DropNaList(noDash), {})

\* The options of the selectbox 'Mes': "Todos", then the distinct month
\* labels of column 1 of df.iloc[12:], without "-" and empty cells.
unique_months(df) ==
    LET rows == IlocFrom(df, 12)
        col == [k \in 1..Len(rows) |-> rows[k][2]]
        noDash == SelectRows(col, [k \in 1..Len(col) |-> col[k] # Str("-")], 1)
    IN  << TODOS >> \o Unique(DropNaList(noDash), {})

\* pd.to_datetime(cell, format='%d-%m-%Y') then .dt.strftime('%d-%m-%Y'):
\* an empty cell stays empty, a text that parses is re-emitted zero padded.
DateCellOk(c) == IsNaN(c) \/ (c.tag = "str" /\ ParsesAsDate(c.s))
NormalizeDateCell(c) == IF IsNaN(c) THEN NaN ELSE Str(Strftime(Strptime(c.s)))

\* The first-run parse of the sheet into the record table.  ok is FALSE when
\* pandas raises (header length mismatch, no 'Fecha' column, a date text
\* that does not match the format).
ParseSheet(df, m) ==
    LET picked == IF m # TODOS
                  THEN DropNaAll(SelectRows(df.rows,
                           [k \in 1..Len(df.rows) |-> df.rows[k][2] = Str(m)], 1))
                  ELSE DropNaAll(IlocFrom(df, 11))
        cols == DropNaList(Iloc(df, 10))
        f == ColIdx(cols, FECHA)
        shapeOk == Len(cols) = Len(df.columns) /\ f # 0
        datesOk == \A k \in 1..Len(picked) : DateCellOk(picked[k][f])
    IN  IF shapeOk /\ datesOk
        THEN [ ok |-> TRUE,
               frame |-> [ columns |-> cols,
                           rows |-> [k \in 1..Len(picked) |->
                                       [picked[k] EXCEPT ![f] =
                                           NormalizeDateCell(picked[k][f])]] ] ]
        ELSE [ ok |-> FALSE, frame |-> EmptyFrame ]

\* DataFrame.replace('-', np.nan) on one row.
ReplaceDash(row) ==
    [j \in 1..Len(row) |-> IF row[j] = Str("-") THEN NaN ELSE row[j]]

\* Faulty variant of FilterView: the placeholder "-" is not replaced.
FilterViewKeepsDash(reg, m) ==
    LET picked == IF m # TODOS
                  THEN SelectRows(reg.rows,
                           [k \in 1..Len(reg.rows) |-> reg.rows[k][2] = Str(m)], 1)
                  ELSE reg.rows
    IN  [ columns |-> reg.columns, rows |-> DropNaAll(picked) ]

\* The view of the stored table shown for the selected month.
FilterView(reg, m) ==
    LET replaced == [k \in 1..Len(reg.rows) |-> ReplaceDash(reg.rows[k])]
        picked == IF m # TODOS
                  THEN SelectRows(replaced,
                           [k \in 1..Len(replaced) |-> replaced[k][2] = Str(m)], 1)
                  ELSE replaced
    IN  [ columns |-> reg.columns, rows |-> DropNaAll(picked) ]

(***************************************************************************)
(* Totals.                                                                 *)
(***************************************************************************)
RECURSIVE SumValor(_, _, _)
\* Series.sum() of the 'Valor' cells of rows: empty cells are skipped.
SumValor(rows, v, k) ==
    IF k > Len(rows) THEN 0
    ELSE (IF rows[k][v].tag = "num" THEN rows[k][v].n ELSE 0)
         + SumValor(rows, v, k + 1)

\* Faulty variant of sumar_valor: the rows are not restricted to the type.
sumar_valor_any_type(frame, tipo) ==
    SumValor(frame.rows, ColIdx(frame.columns, VALOR), 1)

sumar_valor(frame, tipo) ==
    LET t == ColIdx(frame.columns, TIPO)
        v == ColIdx(frame.columns, VALOR)
        ofType == SelectRows(frame.rows,
                      [k \in 1..Len(frame.rows) |-> frame.rows[k][t] = Str(tipo)], 1)
    IN  SumValor(ofType, v, 1)

Totals(frame) ==
    LET ingresos == sumar_valor(frame, "Ingreso")
        gastos == sumar_valor(frame, "Gasto")
        inversiones == sumar_valor(frame, "Inversión")
    IN  [ ingresos |-> ingresos, gastos |-> gastos, inversiones |-> inversiones,
          balance |-> ingresos - gastos - inversiones ]

NoTotals == [ ingresos |-> 0, gastos |-> 0, inversiones |-> 0, balance |-> 0 ]

(***************************************************************************)
(* The taxonomy.                                                           *)
(***************************************************************************)
\* categories.iloc[:, 0].dropna().tolist()
categorias(cat) == DropNaList([k \in 1..Len(cat.rows) |-> cat.rows[k][1]])

\* categories[tipo].dropna().tolist()
conceptos(cat, tipo) ==
    LET c == ColIdx(cat.columns, tipo)
    IN  DropNaList([k \in 1..Len(cat.rows) |-> cat.rows[k][c]])

Range(sq) == { sq[k] : k \in 1..Len(sq) }

(***************************************************************************)
(* Session state.                                                          *)
(***************************************************************************)
VARIABLES
    file_source,  \* st.session_state.file_source
    keys,         \* the keys present in st.session_state
    sheets,       \* st.session_state.sheets: sheet name -> sheet, or empty
    df,           \* st.session_state.df, the 'Registro' sheet
    categories,   \* st.session_state.categories
    registros,    \* st.session_state.registros, the stored record table
    mes,          \* the value of the selectbox 'Mes'
    shown,        \* whether the last run displayed totals and table
    view,         \* the table displayed by the last run
    totals,       \* the totals displayed by the last run
    download,     \* the sheet offered for download by the last run
    lastOp,       \* the last interaction and its outcome
    held,         \* what the table object the session held before the last
                  \* interaction shows after it
    nops          \* interactions so far

vars == << file_source, keys, sheets, df, categories, registros, mes, shown,
           view, totals, download, lastOp, held, nops >>

NoSheets == << >>
NoDownload == << >>

Op(name, index, outcome, seeded) ==
    [ op |-> name, index |-> index, outcome |-> outcome, seeded |-> seeded ]

Init ==
    /\ file_source = "default"
    /\ keys = {"file_source"}
    /\ sheets = NoSheets
    /\ df = EmptyFrame
    /\ categories = EmptyFrame
    /\ registros = EmptyFrame
    /\ mes = TODOS
    /\ shown = FALSE
    /\ view = EmptyFrame
    /\ totals = NoTotals
    /\ download = NoDownload
    /\ lastOp = Op("Init", 0, "ok", FALSE)
    /\ held = EmptyFrame
    /\ nops = 0

\* One more interaction is followed.
Step ==
    /\ nops < MaxOps
    /\ nops' = nops + 1

\* DataFrame.empty
DfEmpty(frame) == Len(frame.rows) = 0 \/ Len(frame.columns) = 0

\* Whether a run with these session values enters the body of main().
BodyRuns(ks, d) == "df" \in ks /\ ~DfEmpty(d)

\* Lines 123-151 of one run: the table to display, the table the session
\* holds after line 213 (seeded by the first run) and whether pandas raised.
Body(ks, reg, d, m) ==
    IF "registros" \in ks
    THEN [ ok |-> TRUE, view |-> FilterView(reg, m), reg |-> reg, seeded |-> FALSE ]
    ELSE LET parsed == ParseSheet(d, m)
         IN  [ ok |-> parsed.ok, view |-> parsed.frame, reg |-> parsed.frame,
               seeded |-> parsed.ok ]

\* The value of the selectbox 'Mes' in a run: it keeps the selection while
\* its options are those of the run before, and starts at "Todos" otherwise.
MesWidget(ks0, d0, ks1, d1, m) ==
    IF BodyRuns(ks0, d0) /\ BodyRuns(ks1, d1) /\ unique_months(d0) = unique_months(d1)
    THEN m ELSE TODOS

\* What a run over the session values (ks, reg, d) with month selection m
\* displays: the totals and the table, or nothing when the body is not
\* entered or pandas raises in it.
Page(ks, reg, d, m) ==
    LET b == Body(ks, reg, d, m)
    IN  IF BodyRuns(ks, d) /\ b.ok
        THEN /\ shown' = TRUE
             /\ view' = b.view
             /\ totals' = Totals(b.view)
        ELSE /\ shown' = FALSE
             /\ view' = EmptyFrame
             /\ totals' = NoTotals

\* A script run from the top over the session values (ks, reg, d) with the
\* month selection m, handling no click: what it displays and leaves behind
\* (line 213 seeds the stored table in the first run that gets there).
Run(name, index, outcome, ks, reg, d, m) ==
    LET b == Body(ks, reg, d, m)
    IN  /\ Page(ks, reg, d, m)
        /\ IF BodyRuns(ks, d)
           THEN IF b.ok
                THEN /\ keys' = ks \cup {"registros"}
                     /\ registros' = b.reg
                     /\ lastOp' = Op(name, index, outcome, b.seeded)
                ELSE /\ keys' = ks
                     /\ registros' = reg
                     /\ lastOp' = Op(name, index, "crashed", FALSE)
           ELSE /\ keys' = ks
                /\ registros' = reg
                /\ lastOp' = Op(name, index, outcome, FALSE)

(***************************************************************************)
(* Source selection.                                                       *)
(***************************************************************************)
\* The sheets are loaded: lines 80-87 and 101-107, then the rerun.
Loaded(name, wb) ==
    LET ks == keys \cup {"sheets", "df", "categories"}
        d == ReadExcel(wb.Registro)
    IN  /\ sheets' = wb
        /\ df' = d
        /\ categories' = wb.Categorias
        /\ file_source' = "uploaded"
        /\ mes' = MesWidget(keys, df, ks, d, mes)
        /\ download' = NoDownload
        /\ Run(name, 0, "ok", ks, registros, d, MesWidget(keys, df, ks, d, mes))
    /\ held' = registros'

\* 'Usar plantilla predeterminada' with the template file in place.
UsarPlantilla ==
    /\ Step
    /\ file_source = "default"
    /\ Loaded("UsarPlantilla", TemplateWorkbook)

\* Faulty variant of UsarPlantillaMissing: the source mode is switched
\* although nothing was loaded.
UsarPlantillaMissingSwitches ==
    /\ Step
    /\ file_source = "default"
    /\ sheets' = NoSheets
    /\ file_source' = "uploaded"
    /\ download' = NoDownload
    /\ Run("UsarPlantilla", 0, "error", keys \cup {"sheets"}, registros, df, mes)
    /\ UNCHANGED << df, categories, mes >>
    /\ held' = registros'

\* 'Usar plantilla predeterminada' with the template file missing:
\* load_template reports the error and returns {}.
UsarPlantillaMissing ==
    /\ Step
    /\ file_source = "default"
    /\ sheets' = NoSheets
    /\ download' = NoDownload
    /\ Run("UsarPlantilla", 0, "error", keys \cup {"sheets"}, registros, df, mes)
    /\ UNCHANGED << file_source, df, categories, mes >>
    /\ held' = registros'

\* A file is chosen in the uploader.
Upload(wb) ==
    /\ Step
    /\ file_source = "default"
    /\ Loaded("Upload", wb)

\* Faulty variant of Cambiar: the loaded sheets are dropped from the session.
CambiarDropsSheets ==
    /\ Step
    /\ file_source # "default"
    /\ file_source' = "default"
    /\ sheets' = NoSheets
    /\ df' = EmptyFrame
    /\ categories' = EmptyFrame
    /\ download' = NoDownload
    /\ Run("Cambiar", 0, "ok", keys \ {"sheets", "df", "categories"},
           registros, EmptyFrame, mes)
    /\ UNCHANGED mes
    /\ held' = registros'

\* 'Cambiar a cargar archivo propio'.
Cambiar ==
    /\ Step
    /\ file_source # "default"
    /\ file_source' = "default"
    /\ download' = NoDownload
    /\ Run("Cambiar", 0, "ok", keys, registros, df, mes)
    /\ UNCHANGED << sheets, df, categories, mes >>
    /\ held' = registros'

\* The user picks a month in the selectbox 'Mes'.
SelectMes(m) ==
    /\ Step
    /\ BodyRuns(keys, df)
    /\ m \in Range(unique_months(df))
    /\ m # mes
    /\ mes' = m
    /\ download' = NoDownload
    /\ Run("SelectMes", 0, "ok", keys, registros, df, m)
    /\ UNCHANGED << file_source, sheets, df, categories >>
    /\ held' = registros'

(***************************************************************************)
(* The sidebar: add, modify, delete.                                       *)
(***************************************************************************)
\* The run gets as far as the sidebar: the body is entered and the totals
\* are computed from a table that has the columns sumar_valor reads.
SidebarReached ==
    /\ BodyRuns(keys, df)
    /\ "registros" \in keys
    /\ HasCol(registros, TIPO)
    /\ HasCol(registros, VALOR)

\* Faulty variant of NumberInput: the lower bound is not enforced.
NumberInputNoMin(v, lo, hi) == v <= hi

\* st.number_input(min_value=lo, max_value=hi): the widget takes v only
\* within its bounds.
NumberInput(v, lo, hi) == lo <= v /\ v <= hi

\* Faulty variant of NewData: the month name is taken one place too far.
NewDataNextMonth(fecha, tipo, concepto, detalle, valor) ==
    [ c \in {FECHA, MES, TIPO, CONCEPTO, DETALLE, VALOR} |->
        CASE c = FECHA -> Str(Strftime(fecha))
          [] c = MES -> Str(meses[fecha.month + 1])
          [] c = TIPO -> Str(tipo)
          [] c = CONCEPTO -> concepto
          [] c = DETALLE -> Str(detalle)
          [] c = VALOR -> Num(valor) ]

\* The dict new_data once the button is handled.
NewData(fecha, tipo, concepto, detalle, valor) ==
    [ c \in {FECHA, MES, TIPO, CONCEPTO, DETALLE, VALOR} |->
        CASE c = FECHA -> Str(Strftime(fecha))
          [] c = MES -> Str(meses[fecha.month])
          [] c = TIPO -> Str(tipo)
          [] c = CONCEPTO -> concepto
          [] c = DETALLE -> Str(detalle)
          [] c = VALOR -> Num(valor) ]

\* pd.DataFrame([new_data]).reindex(columns=columns): one row in the
\* table's column order, empty where new_data has no such key.
Reindex(data, columns) ==
    [j \in 1..Len(columns) |->
        IF columns[j] \in DOMAIN data THEN data[columns[j]] ELSE NaN]

\* pd.concat([reg, new_record], ignore_index=True)
Concat(reg, row) == [ reg EXCEPT !.rows = Append(@, row) ]

\* 'Anadir' is clicked with the widgets holding the values of e.
Anadir(e) ==
    /\ Step
    /\ SidebarReached
    /\ e.tipo \in Range(categorias(categories))
    /\ e.concepto \in Range(conceptos(categories, e.tipo))
    /\ e.valor >= 0
    /\ LET data == NewData(e.fecha, e.tipo, Str(e.concepto), e.detalle, e.valor)
           new_record == Reindex(data, FilterView(registros, mes).columns)
       IN  Run("Anadir", Len(registros.rows), "ok", keys,
               Concat(registros, new_record), df, mes)
    /\ download' = NoDownload
    /\ UNCHANGED << file_source, sheets, df, categories, mes >>
    /\ held' = registros

\* The expander 'Modificar registro' renders for the row index i: the
\* widgets' defaults are read from the stored row (lines 295-342).
ModificarRenders(reg, i, cat) ==
    /\ HasCol(reg, FECHA) /\ HasCol(reg, CONCEPTO)
    /\ HasCol(reg, DETALLE) /\ HasCol(reg, VALOR)
    /\ At(reg, i, FECHA).tag = "str" /\ ParsesAsDate(At(reg, i, FECHA).s)
    /\ At(reg, i, TIPO).tag = "str"
    /\ At(reg, i, TIPO).s \in Range(categorias(cat))
    /\ At(reg, i, VALOR).tag = "num"

\* Faulty variant of PastModificar: the run does not stop on an empty table.
PastModificarNoStop == SidebarReached

\* The run gets past the expander 'Modificar registro': the table is not
\* empty (st.stop otherwise) and the expander renders for the row index
\* held by its number_input, which the user can set to any row.
PastModificar ==
    /\ SidebarReached
    /\ Len(registros.rows) # 0
    /\ \E i \in 0..(Len(registros.rows) - 1) :
          ModificarRenders(registros, i, categories)

\* int(x) of a Valor held in units of 1/Scale.
IntOf(v) == (v \div Scale) * Scale

\* str(x) of a cell, as text_input casts its default.
StrOf(c) == IF c.tag = "str" THEN c.s ELSE "nan"

RECURSIVE WriteCols(_, _, _, _)
\* for col in registros.columns: registros.at[row_index, col] = new_data[col]
\* from column j on; a column new_data lacks raises KeyError and ends the loop.
WriteCols(row, columns, data, j) ==
    IF j > Len(columns) \/ columns[j] \notin DOMAIN data THEN row
    ELSE WriteCols([row EXCEPT ![j] = data[columns[j]]], columns, data, j + 1)

\* Whether the loop of WriteCols raises.
WriteRaises(columns, data) ==
    \E j \in 1..Len(columns) : columns[j] \notin DOMAIN data

\* The concept the 'Modificar' handler stores: the selectbox value, or the
\* row's old concept when the selectbox was left unselected (None, here "").
ConceptoModificar(reg, i, concepto) ==
    IF concepto = "" THEN At(reg, i, CONCEPTO) ELSE Str(concepto)

\* 'Modificar' is clicked for row index i with the widgets holding the
\* values of e.
Modificar(i, e) ==
    /\ Step
    /\ SidebarReached
    /\ Len(registros.rows) # 0
    /\ NumberInput(i, 0, Len(registros.rows) - 1)
    /\ ModificarRenders(registros, i, categories)
    /\ e.tipo \in Range(categorias(categories))
    /\ e.concepto \in Range(conceptos(categories, e.tipo)) \cup {""}
    /\ e.valor >= 0 /\ IntOf(e.valor) = e.valor
    /\ LET data == NewData(e.fecha, e.tipo,
                           ConceptoModificar(registros, i, e.concepto),
                           e.detalle, e.valor)
           written == [ registros EXCEPT !.rows[i + 1] =
                          WriteCols(@, registros.columns, data, 1) ]
       IN  IF WriteRaises(registros.columns, data)
           THEN /\ Page(keys, registros, df, mes)
                /\ registros' = written
                /\ keys' = keys
                /\ lastOp' = Op("Modificar", i, "crashed", FALSE)
           ELSE Run("Modificar", i, "ok", keys, written, df, mes)
    /\ download' = NoDownload
    /\ UNCHANGED << file_source, sheets, df, categories, mes >>
    /\ held' = registros'

\* An index outside its bounds is typed into the number_input of
\* 'Modificar registro': the widget does not take it and nothing runs.
ModificarOutOfRange(i) ==
    /\ Step
    /\ SidebarReached
    /\ Len(registros.rows) # 0
    /\ ~NumberInput(i, 0, Len(registros.rows) - 1)
    /\ lastOp' = Op("Modificar", i, "rejected", FALSE)
    /\ UNCHANGED << file_source, keys, sheets, df, categories, registros, mes,
                    shown, view, totals, download >>
    /\ held' = registros'

\* Faulty variant of DropRow: the row is dropped from the filtered view, which is
\* then stored.
DropRowOfView(reg, i) ==
    [ reg EXCEPT !.rows =
        SelectRows(FilterView(reg, mes).rows,
                   [k \in 1..Len(FilterView(reg, mes).rows) |-> k # i + 1], 1) ]

\* Faulty variant of DropRow: the last row is moved into the place of the
\* dropped one.
DropRowMoveLast(reg, i) ==
    [ reg EXCEPT !.rows =
        [k \in 1..(Len(@) - 1) |-> IF k = i + 1 THEN @[Len(@)] ELSE @[k]] ]

\* registros.drop(registros.index[i]).reset_index(drop=True); a negative i
\* counts from the end as Python indexing does.
DropRow(reg, i) ==
    LET p == IF i < 0 THEN Len(reg.rows) + i + 1 ELSE i + 1
    IN  [ reg EXCEPT !.rows =
            SelectRows(@, [k \in 1..Len(@) |-> k # p], 1) ]

\* 'Eliminar' is clicked for row index i.
Eliminar(i) ==
    /\ Step
    /\ PastModificar
    /\ NumberInput(i, 0, Len(registros.rows) - 1)
    /\ Run("Eliminar", i, "ok", keys, DropRow(registros, i), df, mes)
    /\ download' = NoDownload
    /\ UNCHANGED << file_source, sheets, df, categories, mes >>
    /\ held' = registros

\* An index outside its bounds is typed into the number_input of
\* 'Eliminar registro'.
EliminarOutOfRange(i) ==
    /\ Step
    /\ PastModificar
    /\ ~NumberInput(i, 0, Len(registros.rows) - 1)
    /\ lastOp' = Op("Eliminar", i, "rejected", FALSE)
    /\ UNCHANGED << file_source, keys, sheets, df, categories, registros, mes,
                    shown, view, totals, download >>
    /\ held' = registros'

(***************************************************************************)
(* Export.                                                                 *)
(***************************************************************************)
Max(a, b) == IF a > b THEN a ELSE b

\* The grid ws grown to at least h rows and w columns; the new cells are
\* empty.
Grow(ws, h, w) ==
    LET wide == [a \in 1..Len(ws) |->
                    ws[a] \o [b \in 1..(w - Len(ws[a])) |-> NaN]]
    IN  wide \o [a \in 1..(h - Len(ws)) |-> BlankRow(Max(w, Len(ws[1])))]

\* ws.cell(row=r, column=c, value=v): openpyxl creates the cell when the
\* sheet does not reach it yet; cells never written read back empty.
SetCell(ws, r, c, v) ==
    LET grown == IF r <= Len(ws) /\ c <= Len(ws[1]) THEN ws ELSE Grow(ws, r, c)
    IN  [ grown EXCEPT ![r][c] = v ]

RECURSIVE WriteRowNoSkip(_, _, _, _, _)
\* Faulty variant of WriteRow: the second field is written like the others.
WriteRowNoSkip(ws, i, row, j, column_index) ==
    IF j >= Len(row) THEN ws
    ELSE WriteRowNoSkip(SetCell(ws, i, column_index, row[j + 1]),
                        i, row, j + 1, column_index + 1)

RECURSIVE WriteRow(_, _, _, _, _)
\* The inner loop of lines 385-393 for the sheet row i, from the tuple
\* position j (0-based) on, with the running column_index.
WriteRow(ws, i, row, j, column_index) ==
    IF j >= Len(row) THEN ws
    ELSE IF j = 1
         THEN WriteRow(ws, i, row, j + 1, column_index + 1)
         ELSE WriteRow(SetCell(ws, i, column_index, row[j + 1]),
                       i, row, j + 1, column_index + 1)

RECURSIVE WriteRows(_, _, _)
\* The outer loop of lines 381-393: enumerate(itertuples(), start=13), from
\* the k-th record (1-based) on.
WriteRows(ws, rows, k) ==
    IF k > Len(rows) THEN ws
    ELSE WriteRows(WriteRow(ws, 13 + (k - 1), rows[k], 0, 1), rows, k + 1)

\* The worksheet saved by 'Descargar Excel modificado'.
WriteSheet(ws, reg) == WriteRows(ws, reg.rows, 1)

\* The sheet openpyxl.load_workbook(template_path)["Registro"] opens.
ExportBase == TemplateRegistro

\* 'Descargar Excel modificado' with the template file in place.
Descargar ==
    /\ Step
    /\ PastModificar
    /\ download' = WriteSheet(ExportBase, registros)
    /\ Page(keys, registros, df, mes)
    /\ lastOp' = Op("Descargar", 0, "ok", FALSE)
    /\ UNCHANGED << file_source, keys, sheets, df, categories, registros, mes >>
    /\ held' = registros'

\* 'Descargar Excel modificado' with the template file missing:
\* load_workbook raises and nothing is written.
DescargarMissing ==
    /\ Step
    /\ PastModificar
    /\ download' = NoDownload
    /\ Page(keys, registros, df, mes)
    /\ lastOp' = Op("Descargar", 0, "crashed", FALSE)
    /\ UNCHANGED << file_source, keys, sheets, df, categories, registros, mes >>
    /\ held' = registros'

(***************************************************************************)
(* The specification.                                                      *)
(***************************************************************************)
\* What the user enters in the widgets of 'Anadir nuevo registro'.
AnadirInputs ==
    { [ fecha |-> [day |-> 5, month |-> 3, year |-> 2024], tipo |-> "Ingreso",
        concepto |-> "Salario", detalle |-> "x", valor |-> 1 ],
      [ fecha |-> [day |-> 15, month |-> 1, year |-> 2024], tipo |-> "Gasto",
        concepto |-> "Transporte", detalle |-> "", valor |-> 2 * Scale ] }

\* What the widgets of 'Modificar registro' hold for row index i when
\* 'Modificar' is clicked: the same entry with the amount the integer input
\* shows by default, or another date and type with the concept selectbox
\* left unselected, the detail kept and a typed amount.
ModificarInputs(i) ==
    IF HasCol(registros, DETALLE) /\ HasCol(registros, VALOR)
       /\ i \in 0..(Len(registros.rows) - 1)
    THEN { [ fecha |-> [day |-> 5, month |-> 3, year |-> 2024], tipo |-> "Ingreso",
             concepto |-> "Salario", detalle |-> "x",
             valor |-> IntOf(At(registros, i, VALOR).n) ],
           [ fecha |-> [day |-> 15, month |-> 1, year |-> 2024], tipo |-> "Inversión",
             concepto |-> "", detalle |-> StrOf(At(registros, i, DETALLE)),
             valor |-> 2 * Scale ] }
    ELSE {}

\* The indices a user may type into a row-index input of a table of
\* length len.
IndexInputs(len) == (0 - 1)..(len + 2)

Next ==
    \/ UsarPlantilla
    \/ UsarPlantillaMissing
    \/ \E wb \in Uploads : Upload(wb)
    \/ Cambiar
    \/ \E m \in Range(meses) \cup {TODOS} : SelectMes(m)
    \/ \E e \in AnadirInputs : Anadir(e)
    \/ \E i \in IndexInputs(Len(registros.rows)) :
          \E e \in ModificarInputs(i) : Modificar(i, e)
    \/ \E i \in IndexInputs(Len(registros.rows)) : ModificarOutOfRange(i)
    \/ \E i \in IndexInputs(Len(registros.rows)) : Eliminar(i)
    \/ \E i \in IndexInputs(Len(registros.rows)) : EliminarOutOfRange(i)
    \/ Descargar
    \/ DescargarMissing

Spec == Init /\ [][Next]_vars

(***************************************************************************)
(* Claims.                                                                 *)
(***************************************************************************)
Wrote(name) == lastOp.op = name /\ lastOp.outcome = "ok"

\* C1: every record written by 'Anadir' or 'Modificar' has a concept that
\* belongs to the taxonomy's concept list for the record's type at the
\* moment it is written; in particular a 'Modificar' that changes the type
\* without choosing a concept does not store the old concept under the new
\* type.
C1_ConceptOfTypeWhenWritten ==
    (Wrote("Anadir") \/ Wrote("Modificar")) =>
        /\ At(registros, lastOp.index, CONCEPTO).tag = "str"
        /\ At(registros, lastOp.index, TIPO).tag = "str"
        /\ At(registros, lastOp.index, CONCEPTO).s \in
               Range(conceptos(categories, At(registros, lastOp.index, TIPO).s))

\* C2: once the source has been switched and a sheet is loaded again, the
\* stored record table is the parse of the newly loaded sheet, so that no
\* earlier add, update or delete is reflected in it.
C2_LoadReplacesTable ==
    ((Wrote("UsarPlantilla") \/ Wrote("Upload")) /\ "registros" \in keys) =>
        registros = ParseSheet(df, mes).frame

\* C3: an add, update or delete that fails leaves the stored record table
\* exactly as it was before the operation.
C3_FailedOperationChangesNothing ==
    [][ (/\ lastOp'.op \in {"Anadir", "Modificar", "Eliminar"}
         /\ lastOp'.outcome # "ok")
        => registros' = registros ]_vars

\* C4: 'Modificar' and 'Eliminar' with an index outside [0, len(table)),
\* negative indices and index = len(table) included, are refused and leave
\* the stored table unchanged.
C4_IndexOutOfRangeRefused ==
    [][ (/\ lastOp'.op \in {"Modificar", "Eliminar"}
         /\ lastOp'.index \notin 0..(Len(registros.rows) - 1))
        => (lastOp'.outcome = "rejected" /\ registros' = registros) ]_vars

\* C4 witness: an index beyond the end was typed for a delete on a table of
\* three records, and refused.
C4_Witness ==
    /\ lastOp.op = "Eliminar"
    /\ lastOp.outcome = "rejected"
    /\ Len(registros.rows) = 3
    /\ lastOp.index = 5

\* C5: 'Eliminar' with a valid index i on a stored table of length n leaves
\* the records 0..i-1 followed by the records i+1..n-1, in order and densely
\* indexed, whatever month is selected: the index addresses the whole stored
\* table, not the filtered view.
C5_DeleteRemovesExactlyRow ==
    [][ (lastOp'.op = "Eliminar" /\ lastOp'.outcome = "ok") =>
          LET i == lastOp'.index
              n == Len(registros.rows)
          IN  /\ i \in 0..(n - 1)
              /\ registros'.columns = registros.columns
              /\ Len(registros'.rows) = n - 1
              /\ \A k \in 1..(n - 1) :
                    registros'.rows[k] =
                        registros.rows[IF k <= i THEN k ELSE k + 1] ]_vars

\* C5 witness: a record was deleted while a month was selected and the
\* stored table still holds a record of another month.
C5_Witness ==
    /\ Wrote("Eliminar")
    /\ mes # TODOS
    /\ \E k \in 1..Len(registros.rows) :
          /\ registros.rows[k][2].tag = "str"
          /\ registros.rows[k][2].s \notin {mes, "-"}

\* The worksheet a DataFrame was read from (the inverse of ReadExcel).
SheetOf(d) == << d.columns >> \o d.rows

\* The cell of a grid, empty where the grid does not reach.
CellOf(ws, r, c) ==
    IF r <= Len(ws) /\ c <= Len(ws[r]) THEN ws[r][c] ELSE NaN

\* C6: round trip: parsing the sheet written for the record table T gives a
\* table with as many records as T and, position by position, the same
\* date, type, concept, detail and value, also when T is shorter than the
\* data region of the original sheet (here the sheet the session loaded
\* is the one the export opens).
C6_RoundTrip ==
    (Wrote("Descargar")
       /\ df = ReadExcel(ExportBase)
       /\ registros.columns = DropNaList(ExportBase[12])) =>
        LET back == ParseSheet(ReadExcel(download), TODOS)
        IN  /\ back.ok
            /\ Len(back.frame.rows) = Len(registros.rows)
            /\ \A k \in 0..(Len(registros.rows) - 1) :
                 \A c \in {FECHA, TIPO, CONCEPTO, DETALLE, VALOR} :
                    At(back.frame, k, c) = At(registros, k, c)

\* C7: the exported sheet is a copy of the Registro sheet of the workbook
\* the session loaded (template or upload) in which only data rows are
\* touched: rows 1-12, the second column and the rows beyond
\* 12 + len(record table) are those of that sheet.
C7_ExportCopiesLoadedSheet ==
    Wrote("Descargar") =>
        LET orig == SheetOf(df)
        IN  \A r \in 1..Len(orig) : \A c \in 1..Len(orig[r]) :
              (r <= 12 \/ c = 2 \/ r > 12 + Len(registros.rows)) =>
                  CellOf(download, r, c) = orig[r][c]

\* C8 as stated: the fields of the record at position i go to row 13 + i,
\* those after the skipped second column one column to the right of their
\* position in the record, so that every field is in the output row.
C8_FieldsShiftedRight ==
    Wrote("Descargar") =>
        \A i \in 0..(Len(registros.rows) - 1) :
          \A j \in 0..(Len(registros.columns) - 1) :
             CellOf(download, 13 + i, IF j = 0 THEN 1 ELSE j + 2) =
                 registros.rows[i + 1][j + 1]

\* C8 (amended): the record at position i goes to row 13 + i; every field
\* except the second (the month label) is written at the column of its own
\* position, and the second column keeps the cell of the opened sheet.
C8_FieldsInPlaceSecondSkipped ==
    Wrote("Descargar") =>
        \A i \in 0..(Len(registros.rows) - 1) :
          \A j \in 0..(Len(registros.columns) - 1) :
             CellOf(download, 13 + i, j + 1) =
                 IF j = 1 THEN CellOf(ExportBase, 13 + i, 2)
                 ELSE registros.rows[i + 1][j + 1]

\* C8 witness: a table was exported in which some record's month label is
\* not what the output row holds in the second column.
C8_Witness ==
    /\ Wrote("Descargar")
    /\ \E i \in 0..(Len(registros.rows) - 1) :
          /\ registros.rows[i + 1][2].tag = "str"
          /\ registros.rows[i + 1][2] # CellOf(download, 13 + i, 2)
          /\ registros.rows[i + 1][3] = CellOf(download, 13 + i, 3)

RECURSIVE SumOver(_, _)
\* The sum of f over the finite set S.
SumOver(S, f) ==
    IF S = {} THEN 0
    ELSE LET x == CHOOSE y \in S : TRUE IN f[x] + SumOver(S \ {x}, f)

\* The page shows what the last operation's run computed from the stored
\* table: not so after a refused input (no run) or a handler that raised
\* (the page was rendered before the handler wrote).
PageCurrent == shown /\ lastOp.outcome = "ok"

\* The options of the 'Mes' selectbox over all sheets.
MonthOptions == {TODOS} \cup Range(meses)

\* The sum of Valor over the stored records of month m (all of them for
\* "Todos") that have the type tipo.
C9_SumOfType(m, tipo) ==
    LET n == Len(registros.rows)
        inSubset == { k \in 1..n :
                        /\ m = TODOS \/ registros.rows[k][2] = Str(m)
                        /\ At(registros, k - 1, TIPO) = Str(tipo)
                        /\ At(registros, k - 1, VALOR).tag = "num" }
    IN  SumOver(inSubset, [k \in 1..n |-> At(registros, k - 1, VALOR).n])

C9_Sums(m) ==
    [ ingresos |-> C9_SumOfType(m, "Ingreso"),
      gastos |-> C9_SumOfType(m, "Gasto"),
      inversiones |-> C9_SumOfType(m, "Inversión"),
      balance |-> C9_SumOfType(m, "Ingreso") - C9_SumOfType(m, "Gasto")
                    - C9_SumOfType(m, "Inversión") ]

\* C9: for every filtered view of the stored table, the totals are the sums
\* of Valor over the records of type Ingreso, Gasto and Inversion, the
\* balance is ingresos - gastos - inversiones and all four are zero for an
\* empty view; the totals on the page are those of the view of the selected
\* month.
C9_TotalsAreSumsByType ==
    /\ \A m \in MonthOptions :
          LET t == Totals(FilterView(registros, m))
          IN  /\ t = C9_Sums(m)
              /\ t.balance = t.ingresos - t.gastos - t.inversiones
              /\ Len(FilterView(registros, m).rows) = 0 => t = NoTotals
    /\ PageCurrent => totals = C9_Sums(mes)

\* C9 witness: a month is selected, the totals on the page are not all zero
\* and the stored table holds an amount of another month.
C9_Witness ==
    /\ PageCurrent
    /\ mes # TODOS
    /\ totals.ingresos + totals.gastos + totals.inversiones > 0
    /\ \E k \in 1..Len(registros.rows) :
          /\ registros.rows[k][2] # Str(mes)
          /\ At(registros, k - 1, VALOR).tag = "num"
          /\ At(registros, k - 1, VALOR).n > 0

C10_Absent(c) == IsNaN(c) \/ c = Str("-")

\* The positions of the stored rows the filter for m keeps.
C10_Kept(m) ==
    { k \in 1..Len(registros.rows) :
        /\ \E j \in 1..Len(registros.rows[k]) : ~C10_Absent(registros.rows[k][j])
        /\ m = TODOS \/ registros.rows[k][2] = Str(m) }

\* The frame f holds the stored rows C10_Kept(m), in order, "-" as absent.
C10_IsFilterOf(f, m) ==
    /\ f.columns = registros.columns
    /\ Len(f.rows) = Cardinality(C10_Kept(m))
    /\ \A k \in C10_Kept(m) :
          f.rows[Cardinality({ j \in C10_Kept(m) : j <= k })] =
              [ j \in 1..Len(registros.rows[k]) |->
                  IF C10_Absent(registros.rows[k][j]) THEN NaN
                  ELSE registros.rows[k][j] ]

\* C10: the filtered view for "Todos" is the stored table's non-empty rows
\* in order, and for a month the stored records of that month in order;
\* cells holding "-" count as absent and rows left entirely empty are
\* excluded. The page of a run that found the table in the session shows
\* that view.
C10_FilterByMonth ==
    /\ \A m \in MonthOptions : C10_IsFilterOf(FilterView(registros, m), m)
    /\ (PageCurrent /\ ~lastOp.seeded) => C10_IsFilterOf(view, mes)

\* C10 witness: under "Todos" the page leaves out a stored row that holds
\* only "-" and empty cells.
C10_Witness ==
    /\ PageCurrent /\ ~lastOp.seeded
    /\ mes = TODOS
    /\ Len(view.rows) > 0
    /\ \E k \in 1..Len(registros.rows) :
          /\ k \notin C10_Kept(TODOS)
          /\ \E j \in 1..Len(registros.rows[k]) : registros.rows[k][j] = Str("-")

\* C11: the run that seeds the stored table stores all non-empty data rows
\* of the loaded sheet, whatever month is selected in that run, and a
\* change of the month selection never changes a stored table.
C11_SeededWholeAndFilterPure ==
    [][ /\ lastOp'.seeded =>
             Len(registros'.rows) = Len(DropNaAll(IlocFrom(df', 11)))
        /\ (lastOp'.op = "SelectMes" /\ "registros" \in keys) =>
             registros' = registros ]_vars

\* The records the entries of AnadirInputs stand for, written out: the date
\* as DD-MM-YYYY and the month by its Spanish name.
C12_Records ==
    { (FECHA :> Str("05-03-2024") @@ MES :> Str("marzo") @@ TIPO :> Str("Ingreso")
         @@ CONCEPTO :> Str("Salario") @@ DETALLE :> Str("x") @@ VALOR :> Num(1)),
      (FECHA :> Str("15-01-2024") @@ MES :> Str("enero") @@ TIPO :> Str("Gasto")
         @@ CONCEPTO :> Str("Transporte") @@ DETALLE :> Str("")
         @@ VALOR :> Num(2 * Scale)) }

C13_FechaMes(e) ==
    IF e.fecha.month = 3 THEN << Str("05-03-2024"), Str("marzo") >>
    ELSE << Str("15-01-2024"), Str("enero") >>

\* The record the entry e of 'Modificar' stands for on the record old: a
\* concept left unselected shows, and means, the record's own.
C13_Record(e, old) ==
    (FECHA :> C13_FechaMes(e)[1] @@ MES :> C13_FechaMes(e)[2]
       @@ TIPO :> Str(e.tipo)
       @@ CONCEPTO :> (IF e.concepto = "" THEN old[CONCEPTO] ELSE Str(e.concepto))
       @@ DETALLE :> Str(e.detalle) @@ VALOR :> Num(e.valor))

\* C13: 'Modificar' with a valid index i replaces the record at position i
\* by the fields entered, overwriting every record column, the month
\* re-derived from the new date included, and leaves the table's length
\* and every other record unchanged.
C13_UpdateReplacesRecord ==
    [][ (lastOp'.op = "Modificar"
           /\ lastOp'.index \in 0..(Len(registros.rows) - 1)) =>
          LET i == lastOp'.index
              old == [c \in {FECHA, MES, TIPO, CONCEPTO, DETALLE, VALOR} |->
                        At(registros, i, c)]
          IN  /\ registros'.columns = registros.columns
              /\ Len(registros'.rows) = Len(registros.rows)
              /\ \A k \in 1..Len(registros.rows) :
                    k # i + 1 => registros'.rows[k] = registros.rows[k]
              /\ \E e \in ModificarInputs(i) :
                    \A c \in {FECHA, MES, TIPO, CONCEPTO, DETALLE, VALOR} :
                       At(registros', i, c) = C13_Record(e, old)[c] ]_vars

\* C14: 'Anadir' followed at once by 'Modificar' of the record just added,
\* with the same date, type, concept and detail and the amount the form
\* then holds, changes nothing: the table has the same length and the
\* record the same content, a non-integer value included.
C14_AddThenSameUpdate ==
    [][ (/\ Wrote("Anadir")
         /\ lastOp'.op = "Modificar"
         /\ lastOp'.index = lastOp.index
         /\ Len(registros'.rows) > lastOp.index
         /\ \A c \in {FECHA, TIPO, CONCEPTO, DETALLE} :
               At(registros', lastOp.index, c) = At(registros, lastOp.index, c))
        => registros' = registros ]_vars

\* The index of the record at j once the record at i # j is deleted.
C15_Shifted(j, i) == IF j > i THEN j - 1 ELSE j

\* C15: for every stored table and distinct valid indices i and j, deleting
\* i and then j (shifted) leaves the same table as deleting j and then i
\* (shifted).
C15_DeleteOrderIrrelevant ==
    \A i, j \in 0..(Len(registros.rows) - 1) :
        i # j =>
            DropRow(DropRow(registros, i), C15_Shifted(j, i)) =
                DropRow(DropRow(registros, j), C15_Shifted(i, j))

\* C15 witness: a record was deleted from a table that still holds three
\* records that differ from one another.
C15_Witness ==
    /\ Wrote("Eliminar")
    /\ Len(registros.rows) >= 3
    /\ \A i, j \in 1..Len(registros.rows) :
          i # j => registros.rows[i] # registros.rows[j]

\* C16: 'Usar plantilla predeterminada' with the template missing is not
\* fatal: the source mode stays "default", neither the ledger sheet, the
\* taxonomy sheet nor the record table becomes set or changes, a session
\* without data stays without data, and a load right after it takes effect.
C16_MissingTemplateNonFatal ==
    [][ /\ (lastOp'.op = "UsarPlantilla" /\ sheets' = NoSheets) =>
              /\ file_source' = file_source /\ file_source' = "default"
              /\ df' = df /\ categories' = categories /\ registros' = registros
              /\ keys' \ {"sheets"} = keys \ {"sheets"}
              /\ "df" \notin keys => (~shown' /\ "df" \notin keys')
        /\ (/\ lastOp.op = "UsarPlantilla" /\ sheets = NoSheets
            /\ lastOp'.op \in {"UsarPlantilla", "Upload"} /\ sheets' # NoSheets) =>
              /\ file_source' = "uploaded"
              /\ {"df", "categories"} \subseteq keys'
              /\ df' = ReadExcel(sheets'.Registro) ]_vars

\* C16 witness: the template was asked for and missing in a session that
\* never had data, and the session still has none.
C16_Witness ==
    /\ lastOp.op = "UsarPlantilla"
    /\ lastOp.outcome = "error"
    /\ sheets = NoSheets
    /\ "df" \notin keys /\ "registros" \notin keys
    /\ file_source = "default"
    /\ ~shown

\* C17: 'Anadir', 'Modificar' and 'Eliminar' build a new table and leave
\* the table object they were given untouched: a reference to the stored
\* table taken before the operation shows the old contents after it.
C17_MutationsCopyAndReplace ==
    [][ (/\ lastOp'.op \in {"Anadir", "Modificar", "Eliminar"}
         /\ lastOp'.outcome # "rejected")
        => held' = registros ]_vars

\* The month labels in column 1 of the rows 12 and following (0-based) of
\* the sheet d, "-" and empty cells left out.
C18_Labels(d) ==
    { d.rows[k][2].s : k \in { r \in 13..Len(d.rows) :
                                 /\ d.rows[r][2].tag = "str"
                                 /\ d.rows[r][2] # Str("-") } }

\* C18: the options of the month selector are "Todos" followed by the
\* distinct month labels of column 1 of the rows 12 and following of the
\* loaded sheet, without "-" and empty cells; the selection is one of them;
\* and no 'Anadir', 'Modificar' or 'Eliminar' changes the options.
C18_MonthOptionsFromSheet ==
    [][ /\ BodyRuns(keys', df') =>
              LET options == unique_months(df')
              IN  /\ Head(options) = TODOS
                  /\ Range(Tail(options)) = C18_Labels(df')
                  /\ Len(options) = 1 + Cardinality(C18_Labels(df'))
                  /\ mes' \in Range(options)
        /\ lastOp'.op \in {"Anadir", "Modificar", "Eliminar"} =>
              unique_months(df') = unique_months(df) ]_vars

\* C18 witness: a record was added in a month that is not among the
\* options, and the month of the sheet's row 11, stored as the first
\* record, is not among them either.
C18_Witness ==
    /\ Wrote("Anadir")
    /\ BodyRuns(keys, df)
    /\ At(registros, lastOp.index, MES).s \notin Range(unique_months(df))
    /\ At(registros, 0, MES) = Iloc(df, 11)[2]
    /\ Iloc(df, 11)[2].s \notin Range(unique_months(df))

\* C19: the source mode is "default" or "uploaded"; while it is "uploaded"
\* the ledger sheet and the taxonomy sheet are set in the session; it
\* becomes "uploaded" only by a template load or an upload that read the
\* sheets, and returns to "default" only by 'Cambiar', which leaves the
\* loaded sheets in place.
C19_SourceMode ==
    [][ /\ file_source' \in {"default", "uploaded"}
        /\ file_source' = "uploaded" =>
              /\ {"sheets", "df", "categories"} \subseteq keys'
              /\ sheets' # NoSheets
              /\ df' = ReadExcel(sheets'.Registro)
              /\ categories' = sheets'.Categorias
        /\ (file_source = "default" /\ file_source' = "uploaded") =>
              lastOp'.op \in {"UsarPlantilla", "Upload"}
        /\ (file_source = "uploaded" /\ file_source' = "default") =>
              /\ lastOp'.op = "Cambiar"
              /\ sheets' = sheets /\ df' = df /\ categories' = categories
              /\ keys' = keys ]_vars

\* C19 witness: the source was switched back to "default" and the sheets
\* loaded before are still in the session.
C19_Witness ==
    /\ lastOp.op = "Cambiar"
    /\ file_source = "default"
    /\ {"sheets", "df", "categories"} \subseteq keys
    /\ sheets # NoSheets
    /\ df = ReadExcel(sheets.Registro)

\* C20: while the stored table is empty no 'Modificar', 'Eliminar' or
\* 'Descargar' takes place, not even a refused one: the run stops before
\* their widgets; 'Anadir' remains, and once it has made the table
\* non-empty the run gets past the 'Modificar' expander again.
C20_EmptyTableHalts ==
    [][ Len(registros.rows) = 0 =>
          /\ lastOp'.op \notin {"Modificar", "Eliminar", "Descargar"}
          /\ lastOp'.op = "Anadir" =>
                (Len(registros'.rows) = 1 /\ PastModificar') ]_vars

\* C20 witness: a sheet without data rows was loaded, the stored table was
\* empty, and a record was added to it.
C20_Witness ==
    /\ Wrote("Anadir")
    /\ lastOp.index = 0
    /\ Len(registros.rows) = 1
    /\ Len(IlocFrom(df, 11)) = 0
    /\ PastModificar

=============================================================================
